---- MODULE Spec2Model ----
(***************************************************************************)
(* Model of lib/auth/init.go: the cluster-identity bootstrap (Init,        *)
(* InitSecret, InitKeys, writeKeys, ReadKeys, HaveKeys, ReadSecret).       *)
(*                                                                         *)
(* Several callers run Init against one backend and one file system.  Each *)
(* caller walks through the statements of Init; every call into a          *)
(* collaborator (file system, lock service, CA service, provisioning and   *)
(* trust stores, sealing service, authority) either completes or fails.    *)
(***************************************************************************)
EXTENDS Naturals, Sequences, FiniteSets, TLC

\* ---------------------------------------------------------------- bounds
\* Total number of Init invocations in one behaviour.
MaxCalls == 2

\* Callers: both run concurrently under Spec, the first alone under SpecSeq.
Procs == {1, 2}
SeqProcs == {1}

\* ------------------------------------------------------------- constants
\* init.go:141  asrv.UpsertToken(string(pid), fqdn, 600*time.Second)
TokenTTL == 600
\* init.go:151  asrv.UpsertRemoteCert(cert, 0)
RemoteCertTTL == 0
\* init.go:69   lockService.AcquireLock(cfg.AuthDomain, 60*time.Second)
LockTimeout == 60

\* ----------------------------------------------------------------- values
\* A nil *services.CA, and the CA material a caller can supply.
NoCA == [src |-> "none", id |-> 0]
SuppliedHostCA == [src |-> "cfg", id |-> 1]
SuppliedUserCA == [src |-> "cfg", id |-> 2]
\* The CA a reset with an empty discriminator generates in call n.
FreshCA(type, n) == [src |-> type, id |-> n]

\* Errors are tuples of strings; the nil error is the empty tuple.
NilErr == <<>>
Err(msg) == <<msg>>

\* trace.Wrap(err): the error with the call site attached.  The callers at
\* init.go:105 and init.go:128 pass an error that is nil; the wrapper of a nil
\* error is either nil or a wrapper around nothing, depending on the library
\* version, so both are outcomes.
Wrap(e) == IF e = NilErr THEN {NilErr, <<"trace">>} ELSE {<<"trace">> \o e}

\* secret.KeyToEncodedString / secret.EncodedStringToKey: a key k is stored as
\* the string <<"enc", k>>; any other string does not decode.
KeyToEncodedString(k) == <<"enc", k>>
WellFormedKey(s) == Len(s) = 2 /\ s[1] = "enc"
EncodedStringToKey(s) == s[2]
\* secret.NewKey() in call n.
NewKey(n) == <<"gen", n>>

\* A secure id sealed with key k for provisioning id pid, and
\* session.DecodeSID(token, scrt): it opens only with the sealing key.
SecureID(pid, k) == <<"sid", pid, k>>
DecodeOK(token, key) == token[1] = "sid" /\ token[3] = key
DecodeSID(token) == token[2]

\* Key and certificate blobs.  GenerateKeyPair in call n; the host certificate
\* binds the public key to principal and issuer and is signed by the host CA.
NoBytes == <<>>
GenerateKeyPair(n) == [k |-> <<"key", n>>, pub |-> n]
GenerateHostCert(pub, principal, issuer, ttl, ca) ==
    <<"cert", pub, principal, issuer, ttl, ca.src, ca.id>>
NoSigner == [key |-> NoBytes, cert |-> NoBytes]
\* sshutils.NewSigner(key, cert): the certificate must be for the key.
SignerMatches(key, cert) ==
    /\ Len(key) = 2 /\ key[1] = "key"
    /\ Len(cert) = 7 /\ cert[1] = "cert"
    /\ cert[2] = key[2]
\* The signer it returns; nil (with an error) when it rejects the pair.
NewSigner(key, cert) ==
    IF SignerMatches(key, cert) THEN [key |-> key, cert |-> cert] ELSE NoSigner

\* ------------------------------------------------------------------ paths
secretKeyPath(dataDir) == <<dataDir, "teleport", "secret">>
keysPath(fqdn, dataDir) ==
    [key |-> <<dataDir, fqdn, "key">>, cert |-> <<dataDir, fqdn, "cert">>]

\* ----------------------------------------------------------- configurations
\* InitConfig.  AllowedTokens is the map fqdn -> encoded token, as its set of
\* entries; TrustedAuthorities is a list.  The backend and the authority are
\* the ones all callers share.
InitConfig(doms, dataDirs, fqdns, keys, toks, tas, hcas, ucas) ==
    [AuthDomain : doms, DataDir : dataDirs, FQDN : fqdns, SecretKey : keys,
     AllowedTokens : toks, TrustedAuthorities : tas, HostCA : hcas, UserCA : ucas]

NoConfig ==
    [AuthDomain |-> "", DataDir |-> "", FQDN |-> "", SecretKey |-> <<>>,
     AllowedTokens |-> {}, TrustedAuthorities |-> <<>>, HostCA |-> NoCA, UserCA |-> NoCA]

\* The key the caller supplies, and tokens sealed with it and with another key.
SuppliedKey == <<"cfg", 0>>
OtherKey == <<"cfg", 1>>
SuppliedSecretKey == KeyToEncodedString(SuppliedKey)
OneToken == {<<"x", SecureID("p1", SuppliedKey)>>}
GoodTokens == {<<"x", SecureID("p1", SuppliedKey)>>, <<"y", SecureID("p2", SuppliedKey)>>}
BadTokens == {<<"x", SecureID("p1", SuppliedKey)>>, <<"y", SecureID("p2", OtherKey)>>}

\* Configurations of the sequential specification.
SeqConfigs ==
    InitConfig({"a"}, {"d"}, {"n"}, {SuppliedSecretKey},
               {{}, GoodTokens, BadTokens}, {<<>>, <<"ta1", "ta2">>},
               {NoCA, SuppliedHostCA}, {NoCA, SuppliedUserCA})
    \cup InitConfig({"", "a"}, {"", "d"}, {"", "n", "m"}, {<<>>, SuppliedSecretKey},
                    {GoodTokens}, {<<"ta1", "ta2">>}, {NoCA}, {NoCA})

\* Configurations of the concurrent specification.
ConcConfigs ==
    InitConfig({"a", "b"}, {"d"}, {"n"}, {SuppliedSecretKey},
               {OneToken}, {<<"ta1">>}, {NoCA}, {NoCA})
    \cup InitConfig({"a"}, {"d"}, {"n"}, {SuppliedSecretKey},
                    {OneToken}, {<<"ta1">>}, {SuppliedHostCA}, {SuppliedUserCA})

LockNames == {"a", "b"}

\* ------------------------------------------------------------------ state
VARIABLES
    lock,         \* lock service: lock name -> holder (0: free)
    hostCA,       \* CA service: the persisted host CA
    userCA,       \* CA service: the persisted user CA
    tokens,       \* provisioning store: set of <<id, fqdn, ttl>>
    remoteCerts,  \* trust store: set of <<cert, ttl>>
    dirs,         \* file system: directories that exist
    fs,           \* file system: path -> content, for the files that exist
    pc,           \* per caller: position in Init
    cfg,          \* per caller: the InitConfig of the current call
    local,        \* per caller: the local variables of Init, InitSecret, InitKeys
    ret,          \* per caller: what Init returned
    callid,       \* per caller: number of the current call
    ncalls,       \* number of calls made
    obs,          \* per caller: what the current call probed and which calls it made
    pred,         \* per caller: outcome of the call that returned last before this one
    last,         \* outcome of the call that returned last
    applied,      \* number of first-start imports carried through to the end
    same,         \* all calls so far were given the same configuration
    doms          \* lock names used by the calls so far

backendVars == <<hostCA, userCA, tokens, remoteCerts>>
fsVars == <<dirs, fs>>
callVars == <<cfg, callid, ncalls, pred, same, doms>>
vars == <<lock, backendVars, fsVars, pc, local, ret, callVars, obs, last, applied>>

NoRet == [asrv |-> FALSE, signer |-> NoSigner, err |-> NilErr, valid |-> FALSE]
Result(asrv, signer, err) == [asrv |-> asrv, signer |-> signer, err |-> err, valid |-> TRUE]

\* firstStart: Init's flag; secretKey: InitSecret's parameter; scrt: the key of
\* the sealing service; todo: the entries the range over AllowedTokens has not
\* visited; idx: the index of the range over TrustedAuthorities; k, c: InitKeys';
\* key, cert: what ReadKeys has read.
NoLocal ==
    [firstStart |-> FALSE, secretKey |-> <<>>, scrt |-> <<>>, todo |-> {}, idx |-> 1,
     k |-> NoBytes, c |-> NoBytes, key |-> NoBytes, cert |-> NoBytes]
\* probeHost, probeUser: the answer of the CA probe; wroteHost, wroteUser: the
\* call changed the persisted CA; ops: the creating and writing calls it made;
\* concurrent: another call was in progress during this one.
NoObs == [probeHost |-> "none", probeUser |-> "none",
          wroteHost |-> FALSE, wroteUser |-> FALSE, ops |-> {}, concurrent |-> FALSE]
NoLast == [ok |-> FALSE, dataDir |-> "", fqdn |-> "", signer |-> NoSigner,
           hostCA |-> NoCA, userCA |-> NoCA]

Init ==
    /\ lock = [n \in LockNames |-> 0]
    /\ hostCA = NoCA
    /\ userCA = NoCA
    /\ tokens = {}
    /\ remoteCerts = {}
    /\ dirs = {}
    /\ fs = <<>>
    /\ pc = [p \in Procs |-> "idle"]
    /\ cfg = [p \in Procs |-> NoConfig]
    /\ local = [p \in Procs |-> NoLocal]
    /\ ret = [p \in Procs |-> NoRet]
    /\ callid = [p \in Procs |-> 0]
    /\ ncalls = 0
    /\ obs = [p \in Procs |-> NoObs]
    /\ pred = [p \in Procs |-> NoLast]
    /\ last = NoLast
    /\ applied = 0
    /\ same = TRUE
    /\ doms = {}

\* -------------------------------------------------------------- file system
pathExists(path) == path \in DOMAIN fs
WriteFile(path, data) == (path :> data) @@ fs

\* ------------------------------------------------------------- lock service
\* services.LockService: acquire(name, timeout) takes a free lock; release(name)
\* frees it.
LockFree(name) == lock[name] = 0
Acquired(name, p) == [lock EXCEPT ![name] = p]
ReleaseLock(name) == [lock EXCEPT ![name] = 0]

\* ------------------------------------------------------------------ returns
\* A return statement of Init: the locals go, the caller holds the result.
Return(p, r) ==
    /\ pc' = [pc EXCEPT ![p] = "done"]
    /\ ret' = [ret EXCEPT ![p] = r]
    /\ local' = [local EXCEPT ![p] = NoLocal]
    /\ last' = IF r.asrv
                 THEN [ok |-> TRUE, dataDir |-> cfg[p].DataDir, fqdn |-> cfg[p].FQDN,
                       signer |-> r.signer, hostCA |-> hostCA, userCA |-> userCA]
                 ELSE NoLast
\* Mutant: the release is not deferred.
Deferred_Forgotten(p) == UNCHANGED lock
\* init.go:73: defer lockService.ReleaseLock(cfg.AuthDomain).
Deferred(p) == lock' = ReleaseLock(cfg[p].AuthDomain)
\* return nil, nil, e before the defer statement, and after it.
Fail(p, e) == Return(p, Result(FALSE, NoSigner, e))
\* Mutant: the lock is released at the successful return only, not on the
\* error returns.
Exit_KeepsLock(p, e) == Fail(p, e) /\ UNCHANGED lock
Exit(p, e) == Fail(p, e) /\ Deferred(p)
\* Init goes on to the statement at label, with the locals as given.
Goto(p, label, loc) ==
    /\ pc' = [pc EXCEPT ![p] = label]
    /\ local' = [local EXCEPT ![p] = loc]
    /\ UNCHANGED <<ret, last, lock>>
Did(o, op) == [o EXCEPT !.ops = @ \cup {op}]
Observe(p, o) == obs' = [obs EXCEPT ![p] = o]

InCall(p) == pc[p] \notin {"idle", "done", "panic"}

\* ------------------------------------------------------------------- Init
\* init.go:53-60: entry and the two checks of required fields.
InitCall(p, c) ==
    /\ pc[p] \in {"idle", "done", "panic"}
    /\ ncalls < MaxCalls
    /\ ncalls' = ncalls + 1
    /\ callid' = [callid EXCEPT ![p] = ncalls + 1]
    /\ cfg' = [cfg EXCEPT ![p] = c]
    /\ obs' = [q \in Procs |->
                 IF q = p
                   THEN [NoObs EXCEPT !.concurrent = \E r \in Procs \ {p} : InCall(r)]
                   ELSE IF InCall(q) THEN [obs[q] EXCEPT !.concurrent = TRUE] ELSE obs[q]]
    /\ pred' = [pred EXCEPT ![p] = last]
    /\ same' = (same /\ \A q \in Procs : callid[q] > 0 => cfg[q] = c)
    /\ doms' = doms \cup ({c.AuthDomain} \ {""})
    /\ IF c.AuthDomain = ""
         THEN Fail(p, Err("node name can not be empty"))
         ELSE IF c.DataDir = ""
                THEN Fail(p, Err("path can not be empty"))
                ELSE /\ pc' = [pc EXCEPT ![p] = "mkdir"]
                     /\ ret' = [ret EXCEPT ![p] = NoRet]
                     /\ local' = [local EXCEPT ![p] =
                                    [NoLocal EXCEPT !.secretKey = c.SecretKey,
                                                    !.todo = c.AllowedTokens]]
                     /\ UNCHANGED last
    /\ UNCHANGED <<lock, backendVars, fsVars, applied>>

\* init.go:62-66: os.MkdirAll(cfg.DataDir).
MkdirAll(p) ==
    /\ pc[p] = "mkdir"
    /\ \/ /\ dirs' = dirs \cup {cfg[p].DataDir}
          /\ Observe(p, Did(obs[p], "MkdirAll"))
          /\ Goto(p, "acquire", local[p])
       \/ /\ Fail(p, Err("mkdir"))
          /\ UNCHANGED <<dirs, lock, obs>>
    /\ UNCHANGED <<backendVars, fs, callVars, applied>>

\* Mutant: the error of AcquireLock is ignored and Init goes on without the lock.
AcquireLock_ErrorIgnored(p) ==
    /\ pc[p] = "acquire"
    /\ lock' = IF LockFree(cfg[p].AuthDomain) THEN Acquired(cfg[p].AuthDomain, p) ELSE lock
    /\ Observe(p, Did(obs[p], "AcquireLock"))
    /\ pc' = [pc EXCEPT ![p] = "secret_stat"]
    /\ UNCHANGED <<backendVars, fsVars, local, ret, last, callVars, applied>>

\* init.go:68-73: AcquireLock succeeds and the release is deferred.
AcquireLock(p) ==
    /\ pc[p] = "acquire"
    /\ LockFree(cfg[p].AuthDomain)
    /\ lock' = Acquired(cfg[p].AuthDomain, p)
    /\ Observe(p, Did(obs[p], "AcquireLock"))
    /\ pc' = [pc EXCEPT ![p] = "secret_stat"]
    /\ UNCHANGED <<backendVars, fsVars, local, ret, last, callVars, applied>>

\* Mutant: the release is deferred before the error of AcquireLock is tested.
AcquireTimeout_Releases(p) ==
    /\ pc[p] = "acquire"
    /\ ~LockFree(cfg[p].AuthDomain)
    /\ Exit(p, Err("lock timeout"))
    /\ UNCHANGED <<backendVars, fsVars, callVars, obs, applied>>

\* init.go:69-72: AcquireLock gives up after the timeout; nothing is deferred.
AcquireTimeout(p) ==
    /\ pc[p] = "acquire"
    /\ ~LockFree(cfg[p].AuthDomain)
    /\ Fail(p, Err("lock timeout"))
    /\ UNCHANGED <<lock, backendVars, fsVars, callVars, obs, applied>>

\* ------------------------------------------------------------- InitSecret
\* Mutant: the test of exists is dropped; the secret is written on every call.
SecretStat_AlwaysWrite(p) ==
    /\ pc[p] = "secret_stat"
    /\ \/ /\ Exit(p, Err("stat"))
          /\ UNCHANGED obs
       \/ /\ local[p].secretKey # <<>>
          /\ Goto(p, "secret_write", local[p])
          /\ UNCHANGED obs
       \/ /\ local[p].secretKey = <<>>
          /\ Observe(p, Did(obs[p], "NewKey"))
          /\ \/ Goto(p, "secret_write",
                     [local[p] EXCEPT !.secretKey = KeyToEncodedString(NewKey(callid[p]))])
             \/ Exit(p, Err("new key"))
    /\ UNCHANGED <<backendVars, fsVars, callVars, applied>>

\* init.go:251-267: pathExists(keyPath) and the choice of the key to write.
SecretStat(p) ==
    /\ pc[p] = "secret_stat"
    /\ LET exists == pathExists(secretKeyPath(cfg[p].DataDir)) IN
       \/ /\ Exit(p, Err("stat"))
          /\ UNCHANGED obs
       \/ /\ exists
          /\ Goto(p, "secret_read", local[p])
          /\ UNCHANGED obs
       \/ /\ ~exists
          /\ local[p].secretKey # <<>>
          /\ Goto(p, "secret_write", local[p])
          /\ UNCHANGED obs
       \/ /\ ~exists
          /\ local[p].secretKey = <<>>
          /\ Observe(p, Did(obs[p], "NewKey"))
          /\ \/ Goto(p, "secret_write",
                     [local[p] EXCEPT !.secretKey = KeyToEncodedString(NewKey(callid[p]))])
             \/ Exit(p, Err("new key"))
    /\ UNCHANGED <<backendVars, fsVars, callVars, applied>>

\* init.go:269-273: ioutil.WriteFile(keyPath, secretKey, 0600).
SecretWrite(p) ==
    /\ pc[p] = "secret_write"
    /\ Observe(p, Did(obs[p], "WriteSecret"))
    /\ \/ /\ fs' = WriteFile(secretKeyPath(cfg[p].DataDir), local[p].secretKey)
          /\ Goto(p, "secret_read", local[p])
       \/ /\ Exit(p, Err("write"))
          /\ UNCHANGED fs
    /\ UNCHANGED <<backendVars, dirs, callVars, applied>>

\* Mutant: the two CA blocks are swapped in part: after InitSecret the user CA
\* comes first.
SecretRead_UserFirst(p) ==
    /\ pc[p] = "secret_read"
    /\ LET path == secretKeyPath(cfg[p].DataDir) IN
       \/ Exit(p, Err("read"))
       \/ /\ pathExists(path)
          /\ IF WellFormedKey(fs[path])
               THEN Goto(p, "user_probe",
                         [local[p] EXCEPT !.scrt = EncodedStringToKey(fs[path])])
               ELSE Exit(p, Err("decode key"))
    /\ UNCHANGED <<backendVars, fsVars, callVars, obs, applied>>

\* init.go:276, 279-290: ReadSecret(dataDir), then init.go:75-81.
SecretRead(p) ==
    /\ pc[p] = "secret_read"
    /\ LET path == secretKeyPath(cfg[p].DataDir) IN
       \/ Exit(p, Err("read"))
       \/ /\ pathExists(path)
          /\ IF WellFormedKey(fs[path])
               THEN Goto(p, "host_probe",
                         [local[p] EXCEPT !.scrt = EncodedStringToKey(fs[path])])
               ELSE Exit(p, Err("decode key"))
    /\ UNCHANGED <<backendVars, fsVars, callVars, obs, applied>>

\* ------------------------------------------------------------ CA bootstrap
\* Where Init goes once both CAs are resolved (init.go:132-158).
AfterTokens(p) ==
    IF Len(cfg[p].TrustedAuthorities) # 0 THEN "tas" ELSE "keys_stat"
AfterCAs(p, first) ==
    IF first
      THEN IF cfg[p].AllowedTokens # {} THEN "tokens" ELSE AfterTokens(p)
      ELSE "keys_stat"
\* The first-start block (init.go:132-156) has been left by its end.
Applied(p, label) ==
    applied' = IF local[p].firstStart /\ label = "keys_stat" THEN applied + 1 ELSE applied

\* Mutant: any error of the probe counts as NotFound.
HostProbe_ErrorAsAbsent(p) ==
    /\ pc[p] = "host_probe"
    /\ \/ /\ hostCA # NoCA
          /\ Observe(p, [obs[p] EXCEPT !.probeHost = "present"])
          /\ Goto(p, "user_probe", local[p])
       \/ /\ hostCA = NoCA
          /\ Observe(p, [obs[p] EXCEPT !.probeHost = "absent"])
          /\ Goto(p, "host_resolve", [local[p] EXCEPT !.firstStart = TRUE])
       \/ /\ Observe(p, [obs[p] EXCEPT !.probeHost = "error"])
          /\ Goto(p, "host_resolve", [local[p] EXCEPT !.firstStart = TRUE])
    /\ UNCHANGED <<backendVars, fsVars, callVars, applied>>

\* init.go:89-91, 103-106: asrv.GetHostCAPub() and the test of its error.
HostProbe(p) ==
    /\ pc[p] = "host_probe"
    /\ \/ /\ hostCA # NoCA
          /\ Observe(p, [obs[p] EXCEPT !.probeHost = "present"])
          /\ Goto(p, "user_probe", local[p])
       \/ /\ hostCA = NoCA
          /\ Observe(p, [obs[p] EXCEPT !.probeHost = "absent"])
          /\ Goto(p, "host_resolve", [local[p] EXCEPT !.firstStart = TRUE])
       \/ /\ Observe(p, [obs[p] EXCEPT !.probeHost = "error"])
          /\ LET err == NilErr  \* init.go:75-78: the err of InitSecret, nil here
             IN  \E e \in Wrap(err) : Exit(p, e)
    /\ UNCHANGED <<backendVars, fsVars, callVars, applied>>

\* init.go:92-102: adopt cfg.HostCA or generate a host CA.
HostResolve(p) ==
    /\ pc[p] = "host_resolve"
    /\ IF cfg[p].HostCA # NoCA
         THEN /\ \/ /\ hostCA' = cfg[p].HostCA
                    /\ Goto(p, "user_probe", local[p])
                 \/ /\ \E e \in Wrap(Err("upsert host ca")) : Exit(p, e)
                    /\ UNCHANGED hostCA
              /\ Observe(p, [Did(obs[p], "UpsertHostCA") EXCEPT !.wroteHost = (hostCA' # hostCA)])
         ELSE /\ \/ /\ hostCA' = FreshCA("host", callid[p])
                    /\ Goto(p, "user_probe", local[p])
                 \/ /\ Exit(p, Err("reset host ca"))
                    /\ UNCHANGED hostCA
              /\ Observe(p, [Did(obs[p], "ResetHostCA") EXCEPT !.wroteHost = (hostCA' # hostCA)])
    /\ UNCHANGED <<userCA, tokens, remoteCerts, fsVars, callVars, applied>>

\* Mutant: the else branch is missing; an error of the probe other than
\* NotFound is passed over and Init goes on.
UserProbe_ErrorIgnored(p) ==
    /\ pc[p] = "user_probe"
    /\ \/ /\ userCA # NoCA
          /\ Observe(p, [obs[p] EXCEPT !.probeUser = "present"])
          /\ Goto(p, AfterCAs(p, local[p].firstStart), local[p])
          /\ Applied(p, AfterCAs(p, local[p].firstStart))
       \/ /\ userCA = NoCA
          /\ Observe(p, [obs[p] EXCEPT !.probeUser = "absent"])
          /\ Goto(p, "user_resolve", [local[p] EXCEPT !.firstStart = TRUE])
          /\ UNCHANGED applied
       \/ /\ Observe(p, [obs[p] EXCEPT !.probeUser = "error"])
          /\ Goto(p, AfterCAs(p, local[p].firstStart), local[p])
          /\ Applied(p, AfterCAs(p, local[p].firstStart))
    /\ UNCHANGED <<backendVars, fsVars, callVars>>

\* Mutant: only the host-CA probe sets firstStart.
UserProbe_FlagNotSet(p) ==
    /\ pc[p] = "user_probe"
    /\ \/ /\ userCA # NoCA
          /\ Observe(p, [obs[p] EXCEPT !.probeUser = "present"])
          /\ Goto(p, AfterCAs(p, local[p].firstStart), local[p])
          /\ Applied(p, AfterCAs(p, local[p].firstStart))
       \/ /\ userCA = NoCA
          /\ Observe(p, [obs[p] EXCEPT !.probeUser = "absent"])
          /\ Goto(p, "user_resolve", local[p])
          /\ UNCHANGED applied
       \/ /\ Observe(p, [obs[p] EXCEPT !.probeUser = "error"])
          /\ LET err == NilErr
             IN  \E e \in Wrap(err) : Exit(p, e)
          /\ UNCHANGED applied
    /\ UNCHANGED <<backendVars, fsVars, callVars>>

\* init.go:112-114, 127-129: asrv.GetUserCAPub() and the test of its error.
UserProbe(p) ==
    /\ pc[p] = "user_probe"
    /\ \/ /\ userCA # NoCA
          /\ Observe(p, [obs[p] EXCEPT !.probeUser = "present"])
          /\ Goto(p, AfterCAs(p, local[p].firstStart), local[p])
          /\ Applied(p, AfterCAs(p, local[p].firstStart))
       \/ /\ userCA = NoCA
          /\ Observe(p, [obs[p] EXCEPT !.probeUser = "absent"])
          /\ Goto(p, "user_resolve", [local[p] EXCEPT !.firstStart = TRUE])
          /\ UNCHANGED applied
       \/ /\ Observe(p, [obs[p] EXCEPT !.probeUser = "error"])
          /\ LET err == NilErr  \* init.go:75-78: the err of InitSecret, nil here
             IN  \E e \in Wrap(err) : Exit(p, e)
          /\ UNCHANGED applied
    /\ UNCHANGED <<backendVars, fsVars, callVars>>

\* A nil pointer dereference: Init panics, its deferred call runs, nothing is
\* returned.
Panic(p) ==
    /\ pc' = [pc EXCEPT ![p] = "panic"]
    /\ local' = [local EXCEPT ![p] = NoLocal]
    /\ last' = NoLast
    /\ Deferred(p)
    /\ UNCHANGED ret

\* init.go:115-125: the branch tests cfg.HostCA and then dereferences
\* cfg.UserCA.
UserResolve(p) ==
    /\ pc[p] = "user_resolve"
    /\ IF cfg[p].HostCA # NoCA
         THEN IF cfg[p].UserCA = NoCA
                THEN Panic(p) /\ UNCHANGED <<userCA, obs, applied>>
                ELSE /\ \/ /\ userCA' = cfg[p].UserCA
                           /\ Goto(p, AfterCAs(p, TRUE), local[p])
                           /\ Applied(p, AfterCAs(p, TRUE))
                        \/ /\ \E e \in Wrap(Err("upsert user ca")) : Exit(p, e)
                           /\ UNCHANGED <<userCA, applied>>
                     /\ Observe(p, [Did(obs[p], "UpsertUserCA") EXCEPT !.wroteUser = (userCA' # userCA)])
         ELSE /\ \/ /\ userCA' = FreshCA("user", callid[p])
                    /\ Goto(p, AfterCAs(p, TRUE), local[p])
                    /\ Applied(p, AfterCAs(p, TRUE))
                 \/ /\ \E e \in Wrap(Err("reset user ca")) : Exit(p, e)
                    /\ UNCHANGED <<userCA, applied>>
              /\ Observe(p, [Did(obs[p], "ResetUserCA") EXCEPT !.wroteUser = (userCA' # userCA)])
    /\ UNCHANGED <<hostCA, tokens, remoteCerts, fsVars, callVars>>

\* ------------------------------------------------------ first-start imports
\* asrv.UpsertToken(id, fqdn, ttl) on the provisioning store.
UpsertToken(id, fqdn, ttl) ==
    {t \in tokens : t[1] # id} \cup {<<id, fqdn, ttl>>}
\* asrv.UpsertRemoteCert(cert, ttl) on the trust store.
UpsertRemoteCert(cert, ttl) ==
    {t \in remoteCerts : t[1] # cert} \cup {<<cert, ttl>>}

\* init.go:135-144: one iteration of the range over cfg.AllowedTokens; the
\* order in which a Go map is ranged over is not specified.
ImportToken(p) ==
    /\ pc[p] = "tokens"
    /\ \E entry \in local[p].todo :
         LET fqdn == entry[1]
             token == entry[2]
             next == IF local[p].todo = {entry} THEN AfterTokens(p) ELSE "tokens"
         IN  IF ~DecodeOK(token, local[p].scrt)
               THEN /\ \E e \in Wrap(Err("decode sid")) : Exit(p, e)
                    /\ UNCHANGED <<tokens, obs, applied>>
               ELSE /\ Observe(p, Did(obs[p], "UpsertToken"))
                    /\ \/ /\ tokens' = UpsertToken(DecodeSID(token), fqdn, TokenTTL)
                          /\ Goto(p, next, [local[p] EXCEPT !.todo = @ \ {entry}])
                          /\ Applied(p, next)
                       \/ /\ \E e \in Wrap(Err("upsert token")) : Exit(p, e)
                          /\ UNCHANGED <<tokens, applied>>
    /\ UNCHANGED <<hostCA, userCA, remoteCerts, fsVars, callVars>>

\* init.go:149-154: one iteration of the range over cfg.TrustedAuthorities.
ImportRemoteCert(p) ==
    /\ pc[p] = "tas"
    /\ Observe(p, Did(obs[p], "UpsertRemoteCert"))
    /\ LET cert == cfg[p].TrustedAuthorities[local[p].idx]
           next == IF local[p].idx = Len(cfg[p].TrustedAuthorities) THEN "keys_stat" ELSE "tas"
       IN  \/ /\ remoteCerts' = UpsertRemoteCert(cert, RemoteCertTTL)
              /\ Goto(p, next, [local[p] EXCEPT !.idx = @ + 1])
              /\ Applied(p, next)
           \/ /\ \E e \in Wrap(Err("upsert remote cert")) : Exit(p, e)
              /\ UNCHANGED <<remoteCerts, applied>>
    /\ UNCHANGED <<hostCA, userCA, tokens, fsVars, callVars>>

\* ---------------------------------------------------------------- InitKeys
\* Mutant: the test of keyExists and certExists is dropped; keys are generated
\* on every call.
KeysStat_AlwaysGenerate(p) ==
    /\ pc[p] = "keys_stat"
    /\ IF cfg[p].FQDN = ""
         THEN Exit(p, Err("fqdn can not be empty"))
         ELSE \/ Exit(p, Err("stat"))
              \/ Goto(p, "keys_gen", local[p])
    /\ UNCHANGED <<backendVars, fsVars, callVars, obs, applied>>

\* init.go:158, 167-184: the fqdn check and the two pathExists calls.
KeysStat(p) ==
    /\ pc[p] = "keys_stat"
    /\ LET fqdn == cfg[p].FQDN
           paths == keysPath(fqdn, cfg[p].DataDir)
           keyExists == pathExists(paths.key)
           certExists == pathExists(paths.cert)
       IN  IF fqdn = ""
             THEN Exit(p, Err("fqdn can not be empty"))
             ELSE \/ Exit(p, Err("stat"))
                  \/ Goto(p, IF ~keyExists \/ ~certExists THEN "keys_gen" ELSE "read_keys",
                          local[p])
    /\ UNCHANGED <<backendVars, fsVars, callVars, obs, applied>>

\* Mutant: the certificate is asked for the lock name instead of the node name.
KeysGen_CertForLockName(p) ==
    /\ pc[p] = "keys_gen"
    /\ LET name == cfg[p].AuthDomain
           pair == GenerateKeyPair(callid[p])
       IN  \/ /\ Observe(p, Did(obs[p], "GenerateKeyPair"))
              /\ Exit(p, Err("generate key pair"))
           \/ /\ Observe(p, Did(Did(obs[p], "GenerateKeyPair"), "GenerateHostCert"))
              /\ Exit(p, Err("generate host cert"))
           \/ /\ hostCA # NoCA
              /\ Observe(p, Did(Did(obs[p], "GenerateKeyPair"), "GenerateHostCert"))
              /\ Goto(p, "write_key",
                      [local[p] EXCEPT !.k = pair.k,
                                       !.c = GenerateHostCert(pair.pub, name, name, 0, hostCA)])
    /\ UNCHANGED <<backendVars, fsVars, callVars, applied>>

\* init.go:185-192: a.GenerateKeyPair("") and a.GenerateHostCert(pub, fqdn, fqdn, 0);
\* the authority signs with the host CA.
KeysGen(p) ==
    /\ pc[p] = "keys_gen"
    /\ LET fqdn == cfg[p].FQDN
           pair == GenerateKeyPair(callid[p])
       IN  \/ /\ Observe(p, Did(obs[p], "GenerateKeyPair"))
              /\ Exit(p, Err("generate key pair"))
           \/ /\ Observe(p, Did(Did(obs[p], "GenerateKeyPair"), "GenerateHostCert"))
              /\ Exit(p, Err("generate host cert"))
           \/ /\ hostCA # NoCA
              /\ Observe(p, Did(Did(obs[p], "GenerateKeyPair"), "GenerateHostCert"))
              /\ Goto(p, "write_key",
                      [local[p] EXCEPT !.k = pair.k,
                                       !.c = GenerateHostCert(pair.pub, fqdn, fqdn, 0, hostCA)])
    /\ UNCHANGED <<backendVars, fsVars, callVars, applied>>

\* init.go:193, 200-207: writeKeys writes the key file.
WriteKey(p) ==
    /\ pc[p] = "write_key"
    /\ Observe(p, Did(obs[p], "WriteKey"))
    /\ \/ /\ fs' = WriteFile(keysPath(cfg[p].FQDN, cfg[p].DataDir).key, local[p].k)
          /\ Goto(p, "write_cert", local[p])
       \/ /\ Exit(p, Err("write"))
          /\ UNCHANGED fs
    /\ UNCHANGED <<backendVars, dirs, callVars, applied>>

\* init.go:209-213: writeKeys writes the cert file.
WriteCert(p) ==
    /\ pc[p] = "write_cert"
    /\ Observe(p, Did(obs[p], "WriteCert"))
    /\ \/ /\ fs' = WriteFile(keysPath(cfg[p].FQDN, cfg[p].DataDir).cert, local[p].c)
          /\ Goto(p, "read_keys", local[p])
       \/ /\ Exit(p, Err("write"))
          /\ UNCHANGED fs
    /\ UNCHANGED <<backendVars, dirs, callVars, applied>>

\* init.go:197, 217-224: ReadKeys reads the key file.
ReadKey(p) ==
    /\ pc[p] = "read_keys"
    /\ LET paths == keysPath(cfg[p].FQDN, cfg[p].DataDir) IN
       \/ Exit(p, Err("read"))
       \/ /\ pathExists(paths.key)
          /\ Goto(p, "read_cert", [local[p] EXCEPT !.key = fs[paths.key]])
    /\ UNCHANGED <<backendVars, fsVars, callVars, obs, applied>>

\* init.go:226-229: ReadKeys reads the cert file.
ReadCert(p) ==
    /\ pc[p] = "read_cert"
    /\ LET paths == keysPath(cfg[p].FQDN, cfg[p].DataDir) IN
       \/ Exit(p, Err("read"))
       \/ /\ pathExists(paths.cert)
          /\ Goto(p, "new_signer", [local[p] EXCEPT !.cert = fs[paths.cert]])
    /\ UNCHANGED <<backendVars, fsVars, callVars, obs, applied>>

\* init.go:231, 158-163, 73: sshutils.NewSigner on what was read, the return of
\* InitKeys and the return of Init, at which the deferred release runs.
SignAndReturn(p) ==
    /\ pc[p] = "new_signer"
    /\ IF SignerMatches(local[p].key, local[p].cert)
         THEN /\ Return(p, Result(TRUE, NewSigner(local[p].key, local[p].cert), NilErr))
              /\ Deferred(p)
         ELSE Exit(p, Err("new signer"))
    /\ UNCHANGED <<backendVars, fsVars, callVars, obs, applied>>

\* init.go:234-248: HaveKeys(fqdn, dataDir), when the stat calls do not fail.
HaveKeys(fqdn, dataDir) ==
    IF ~pathExists(keysPath(fqdn, dataDir).key)
      THEN FALSE
      ELSE pathExists(keysPath(fqdn, dataDir).cert)
\* init.go:216-232: the signer ReadKeys(fqdn, dataDir) returns on the files as
\* they are: nil when a file cannot be read (221-229) or when sshutils.NewSigner
\* rejects the pair (231).
ReadKeysResult(fqdn, dataDir) ==
    LET paths == keysPath(fqdn, dataDir) IN
    IF ~pathExists(paths.key) THEN NoSigner
    ELSE IF ~pathExists(paths.cert) THEN NoSigner
    ELSE NewSigner(fs[paths.key], fs[paths.cert])

\* ------------------------------------------------------------ specification
Step(p) ==
    \/ MkdirAll(p)
    \/ AcquireLock(p)
    \/ SecretStat(p)
    \/ SecretWrite(p)
    \/ SecretRead(p)
    \/ HostProbe(p)
    \/ HostResolve(p)
    \/ UserProbe(p)
    \/ UserResolve(p)
    \/ ImportToken(p)
    \/ ImportRemoteCert(p)
    \/ KeysStat(p)
    \/ KeysGen(p)
    \/ WriteKey(p)
    \/ WriteCert(p)
    \/ ReadKey(p)
    \/ ReadCert(p)
    \/ SignAndReturn(p)

\* Concurrent callers.
Next ==
    \E p \in Procs :
        \/ \E c \in ConcConfigs : InitCall(p, c)
        \/ AcquireTimeout(p)
        \/ Step(p)

Spec == Init /\ [][Next]_vars

\* Concurrent callers whose calls go on: a call in progress takes its next
\* step, every collaborator call completing or failing, and a call that waits
\* for the lock gets it or gets the timeout error.
\* The callers contend for one lock name, on a backend whose CAs Init generates.
FairConfigs == {c \in ConcConfigs : c.AuthDomain = "a" /\ c.HostCA = NoCA}
NextFair ==
    \E p \in Procs :
        \/ \E c \in FairConfigs : InitCall(p, c)
        \/ AcquireTimeout(p)
        \/ Step(p)
Fairness == \A p \in Procs : WF_vars(Step(p) \/ AcquireTimeout(p))
SpecFair == Init /\ [][NextFair]_vars /\ Fairness

\* One caller, one call after the other.
NextSeq ==
    \E p \in SeqProcs :
        \/ \E c \in SeqConfigs : InitCall(p, c)
        \/ Step(p)

SpecSeq == Init /\ [][NextSeq]_vars

\* ------------------------------------------------------------------ claims
Finished(p) == pc[p] \in {"done", "panic"}
Succeeded(p) ==
    /\ pc[p] = "done"
    /\ ret[p].asrv /\ ret[p].signer # NoSigner /\ ret[p].err = NilErr
Holds(p, name) == lock[name] = p

\* The two callers have each made one call, the only calls so far, with the
\* same domain name, and the calls overlapped in time.
ConcurrentPair ==
    /\ ncalls = 2 /\ callid[1] > 0 /\ callid[2] > 0
    /\ cfg[1].AuthDomain = cfg[2].AuthDomain
    /\ obs[1].concurrent /\ obs[2].concurrent
Wrote(p, type) == IF type = "host" THEN obs[p].wroteHost ELSE obs[p].wroteUser
ProbeOf(p, type) == IF type = "host" THEN obs[p].probeHost ELSE obs[p].probeUser
CATypes == {"host", "user"}
Other(p) == CHOOSE q \in Procs : q # p

\* C1 as stated: of two concurrent Init calls with the same domain name that
\* start from a backend without CAs, for each CA type exactly one performs the
\* generate/adopt write and the other observes the CA as present.
C1_ExactlyOneWrites ==
    (ConcurrentPair /\ Finished(1) /\ Finished(2)) =>
        \A type \in CATypes :
            \E p \in Procs : /\ Wrote(p, type)
                             /\ ~Wrote(Other(p), type)
                             /\ ProbeOf(Other(p), type) = "present"

\* C1 amended: of two such calls at most one performs the generate/adopt write
\* of a CA type (never both observe it absent and both write it); a call that
\* returns success beside a call that wrote the CA observed the CA as present;
\* and when both calls return success exactly one of them wrote.
C1_AtMostOneWrites ==
    ConcurrentPair =>
        \A type \in CATypes :
            /\ ~(Wrote(1, type) /\ Wrote(2, type))
            /\ \A p \in Procs :
                 (Wrote(p, type) /\ Succeeded(Other(p))) =>
                     ProbeOf(Other(p), type) = "present"
            /\ (Succeeded(1) /\ Succeeded(2)) => (Wrote(1, type) \/ Wrote(2, type))

\* Two concurrent calls both returned success: one wrote both CAs, the other
\* found both present.
C1_Witness ==
    /\ ConcurrentPair /\ Succeeded(1) /\ Succeeded(2)
    /\ \E p \in Procs :
         /\ Wrote(p, "host") /\ Wrote(p, "user")
         /\ ProbeOf(Other(p), "host") = "present"
         /\ ProbeOf(Other(p), "user") = "present"

\* C2: an Init call that is not in progress (it returned, on whatever path, or
\* panicked) holds no lock.
C2_LockReleasedOnReturn ==
    \A p \in Procs : ~InCall(p) => \A name \in LockNames : ~Holds(p, name)

\* A call that acquired the lock returned an error from InitKeys, and the lock
\* is free.
C2_Witness ==
    \E p \in Procs :
        /\ pc[p] = "done"
        /\ "AcquireLock" \in obs[p].ops
        /\ ret[p].err = Err("fqdn can not be empty")
        /\ LockFree(cfg[p].AuthDomain)

\* Calls that generate or persist something.
GenOps ==
    {"NewKey", "WriteSecret", "UpsertHostCA", "ResetHostCA", "UpsertUserCA",
     "ResetUserCA", "UpsertToken", "UpsertRemoteCert", "GenerateKeyPair",
     "GenerateHostCert", "WriteKey", "WriteCert"}
KeyOps == {"GenerateKeyPair", "GenerateHostCert", "WriteKey", "WriteCert"}
Generated(p) == obs[p].ops \cap GenOps

\* What C3 says of the call of p, invoked right after a successful call: no
\* generation, the CAs as they were, and the identity it returns is the one
\* the first call returned.
SecondCallReadsOnly(p) ==
    /\ Generated(p) = {}
    /\ hostCA = pred[p].hostCA /\ userCA = pred[p].userCA
    /\ Succeeded(p) => ret[p].signer = pred[p].signer

\* C3 as stated: a call that follows a successful call with the same data
\* directory and backend returns the same node identity, leaves the CAs and
\* generates nothing.
C3_SameDataDir ==
    \A p \in SeqProcs :
        (callid[p] > 0 /\ pred[p].ok /\ pred[p].dataDir = cfg[p].DataDir) =>
            SecondCallReadsOnly(p)

\* C3 amended: a call that follows a successful call with the same data
\* directory, backend and node name (FQDN) leaves the CAs, generates and writes
\* nothing, and when it returns success returns the same node identity.
C3_SameDataDirAndName ==
    \A p \in SeqProcs :
        (callid[p] > 0 /\ pred[p].ok /\ pred[p].dataDir = cfg[p].DataDir
         /\ pred[p].fqdn = cfg[p].FQDN) =>
            SecondCallReadsOnly(p)

\* A second call for the same directory and name returned success with the
\* identity of the first.
C3_Witness ==
    \E p \in SeqProcs :
        /\ pred[p].ok /\ pred[p].dataDir = cfg[p].DataDir /\ pred[p].fqdn = cfg[p].FQDN
        /\ Succeeded(p) /\ ret[p].signer = pred[p].signer /\ Generated(p) = {}

\* C4: once an Init call has returned success, the first-start imports (tokens
\* and trusted authorities) have been carried out in full exactly once.
C4_AppliedExactlyOnce ==
    \A p \in Procs : Succeeded(p) => applied = 1

\* C5: once persisted, the host CA and the user CA never change, whatever the
\* sequence and interleaving of Init calls.
CAKept ==
    /\ hostCA # NoCA => hostCA' = hostCA
    /\ userCA # NoCA => userCA' = userCA
C5_NeverReplaced == [][CAKept]_vars

\* C6: every return of Init is a full success (server, signer, nil error) or a
\* full failure (no server, no signer, an error).
C6_SuccessOrError ==
    \A p \in Procs :
        pc[p] = "done" =>
            \/ ret[p].asrv /\ ret[p].signer # NoSigner /\ ret[p].err = NilErr
            \/ ~ret[p].asrv /\ ret[p].signer = NoSigner /\ ret[p].err # NilErr

\* C7: a call with an empty name (the lock name or the node name) or an empty
\* data directory returns a configuration error and has had no side effect.
ConfigErrors ==
    {Err("node name can not be empty"), Err("path can not be empty"),
     Err("fqdn can not be empty")}
C7_NoSideEffects ==
    \A p \in Procs :
        (callid[p] > 0
         /\ (cfg[p].AuthDomain = "" \/ cfg[p].FQDN = "" \/ cfg[p].DataDir = "")) =>
            /\ obs[p].ops = {}
            /\ pc[p] = "done" => ret[p].err \in ConfigErrors

\* The sealing key on disk, and whether an entry of AllowedTokens opens with it.
SecretOnDisk(dataDir) ==
    /\ pathExists(secretKeyPath(dataDir))
    /\ WellFormedKey(fs[secretKeyPath(dataDir)])
Decodable(entry, dataDir) ==
    /\ SecretOnDisk(dataDir)
    /\ DecodeOK(entry[2], EncodedStringToKey(fs[secretKeyPath(dataDir)]))
FirstStartRun(p) == obs[p].probeHost = "absent" \/ obs[p].probeUser = "absent"

\* C8: a first-start run given a token that does not decode does not succeed,
\* does no node-identity work, and leaves no token of its map and no trusted
\* authority persisted.
C8_NoPartialImport ==
    \A p \in Procs :
        (pc[p] = "done" /\ FirstStartRun(p)
         /\ \E entry \in cfg[p].AllowedTokens : ~Decodable(entry, cfg[p].DataDir)) =>
            /\ ~ret[p].asrv
            /\ obs[p].ops \cap KeyOps = {}
            /\ \A entry \in cfg[p].AllowedTokens :
                 <<DecodeSID(entry[2]), entry[1], TokenTTL>> \notin tokens
            /\ remoteCerts = {}

\* The state one uninterrupted successful first Init with configuration c ends in.
FullyInitialized(c) ==
    /\ hostCA # NoCA /\ userCA # NoCA
    /\ SecretOnDisk(c.DataDir)
    /\ pathExists(keysPath(c.FQDN, c.DataDir).key)
    /\ pathExists(keysPath(c.FQDN, c.DataDir).cert)
    /\ \A entry \in c.AllowedTokens :
         <<DecodeSID(entry[2]), entry[1], TokenTTL>> \in tokens
    /\ \A i \in 1..Len(c.TrustedAuthorities) :
         <<c.TrustedAuthorities[i], RemoteCertTTL>> \in remoteCerts

\* C9: when every call so far was given the same configuration (one whose
\* tokens all decode), a call that returns success, however many runs aborted
\* before it, ends in the state of one uninterrupted successful first Init.
C9_RetryCompletes ==
    \A p \in Procs :
        (Succeeded(p) /\ same
         /\ \A entry \in cfg[p].AllowedTokens : Decodable(entry, cfg[p].DataDir)) =>
            FullyInitialized(cfg[p])

\* C10: a call that probed a CA type as absent adopts the supplied material of
\* that type by upsert, or, given none, generates a CA of that type by reset.
C10_AdoptOrGenerate ==
    \A p \in Procs :
        /\ (obs[p].probeHost = "absent" /\ pc[p] # "host_resolve") =>
              IF cfg[p].HostCA # NoCA
                THEN /\ obs[p].ops \cap {"UpsertHostCA", "ResetHostCA"} = {"UpsertHostCA"}
                     /\ obs[p].wroteHost => hostCA = cfg[p].HostCA
                ELSE /\ obs[p].ops \cap {"UpsertHostCA", "ResetHostCA"} = {"ResetHostCA"}
                     /\ obs[p].wroteHost => hostCA = FreshCA("host", callid[p])
        /\ (obs[p].probeUser = "absent" /\ pc[p] # "user_resolve") =>
              IF cfg[p].UserCA # NoCA
                THEN /\ obs[p].ops \cap {"UpsertUserCA", "ResetUserCA"} = {"UpsertUserCA"}
                     /\ obs[p].wroteUser => userCA = cfg[p].UserCA
                ELSE /\ obs[p].ops \cap {"UpsertUserCA", "ResetUserCA"} = {"ResetUserCA"}
                     /\ obs[p].wroteUser => userCA = FreshCA("user", callid[p])

\* The positions of Init between the acquire of the lock and its release.
CriticalLabels ==
    {"secret_stat", "secret_write", "secret_read", "host_probe", "host_resolve",
     "user_probe", "user_resolve", "tokens", "tas", "keys_stat", "keys_gen",
     "write_key", "write_cert", "read_keys", "read_cert", "new_signer"}
InCritical(p) == pc[p] \in CriticalLabels

\* C11: at any time at most one Init call on the backend is between the
\* acquire and the release of the lock, and a call in that section (where all
\* its writes are made) holds the lock.
C11_OneInCriticalSection ==
    /\ Cardinality({p \in Procs : InCritical(p)}) <= 1
    /\ \A p \in Procs : InCritical(p) => Holds(p, cfg[p].AuthDomain)

\* The secret files, and the positions of Init after InitSecret returned.
IsSecretPath(path) == path = secretKeyPath(path[1])
PastSecret(p) == pc[p] \in CriticalLabels \ {"secret_stat", "secret_write", "secret_read"}
\* A secret file that exists keeps its content in this step.
SecretKept ==
    \A path \in DOMAIN fs : IsSecretPath(path) => fs'[path] = fs[path]
\* The sealing service InitSecret returned is built from the key on disk, which
\* is the supplied key when this call created the file from a supplied key.
ScrtFromDisk ==
    \A p \in Procs :
        PastSecret(p) =>
            /\ SecretOnDisk(cfg[p].DataDir)
            /\ local[p].scrt = EncodedStringToKey(fs[secretKeyPath(cfg[p].DataDir)])
            /\ ("WriteSecret" \in obs[p].ops /\ cfg[p].SecretKey # <<>>) =>
                  local[p].scrt = EncodedStringToKey(cfg[p].SecretKey)

\* C12: a secret file that exists is never written again, whatever key a later
\* call supplies, and InitSecret returns the sealing service of the key that
\* is on disk (ReadSecret reads it back): the supplied key when one was given
\* at creation.
C12_SecretNeverOverwritten == [][SecretKept /\ ScrtFromDisk']_vars

\* A later call that supplies another key than the one on disk got the sealing
\* service of the key on disk.
C12_Witness ==
    \E p \in SeqProcs :
        /\ PastSecret(p) /\ callid[p] = 2
        /\ "WriteSecret" \notin obs[p].ops
        /\ cfg[p].SecretKey # <<>>
        /\ cfg[p].SecretKey # fs[secretKeyPath(cfg[p].DataDir)]
        /\ local[p].scrt = EncodedStringToKey(fs[secretKeyPath(cfg[p].DataDir)])

\* Init returned the error of AcquireLock.
TimedOut(p) ==
    /\ pc[p] = "done"
    /\ ret[p] = Result(FALSE, NoSigner, Err("lock timeout"))
\* C13: a call that leaves the wait for the lock without the lock returns the
\* error of AcquireLock at once, has written nothing (of its calls only
\* MkdirAll was made) and leaves every lock, the holder's included, as it was.
C13_TimeoutLeavesLock ==
    [][\A p \in Procs :
         (pc[p] = "acquire" /\ pc'[p] # "acquire" /\ ~Holds(p, cfg[p].AuthDomain)') =>
             /\ TimedOut(p)'
             /\ obs'[p].ops \subseteq {"MkdirAll"}
             /\ lock' = lock
             /\ UNCHANGED <<backendVars, fsVars>>]_vars

\* A call gave up waiting while the other call still holds the lock.
C13_Witness ==
    \E p \in Procs :
        /\ TimedOut(p)
        /\ Holds(Other(p), cfg[p].AuthDomain)
        /\ InCritical(Other(p))

\* C14: the signer a successful call returns is the one ReadKeys builds from
\* the key and certificate files as they are on disk at the return, whether
\* or not the call generated them; when it did, the files hold the key pair and
\* the certificate (for the node name, signed by the host CA) it generated.
C14_SignerFromDisk ==
    \A p \in SeqProcs :
        Succeeded(p) =>
            LET fqdn == cfg[p].FQDN
                pair == GenerateKeyPair(callid[p])
            IN  /\ HaveKeys(fqdn, cfg[p].DataDir)
                /\ ret[p].signer = ReadKeysResult(fqdn, cfg[p].DataDir)
                /\ "GenerateKeyPair" \in obs[p].ops =>
                      ret[p].signer =
                          NewSigner(pair.k, GenerateHostCert(pair.pub, fqdn, fqdn, 0, hostCA))

\* A second call generated the identity (the first did not get that far, or
\* stopped between the two files) and returned it.
C14_Witness ==
    \E p \in SeqProcs :
        /\ Succeeded(p) /\ callid[p] = 2
        /\ "GenerateKeyPair" \in obs[p].ops
        /\ ret[p].signer = ReadKeysResult(cfg[p].FQDN, cfg[p].DataDir)
        /\ ret[p].signer.key = GenerateKeyPair(2).k

\* The calls that write a CA of a type, and the calls of the first-start import.
CAOps(type) ==
    IF type = "host" THEN {"UpsertHostCA", "ResetHostCA"} ELSE {"UpsertUserCA", "ResetUserCA"}
ImportOps == {"UpsertToken", "UpsertRemoteCert"}

\* C15: a call whose CA probe failed with another error than NotFound has
\* ended there without a server: it made no reset or upsert of the probed
\* type, no import and no node-identity call, and after a failed host probe
\* it did not go on to the user CA.
C15_ProbeErrorAborts ==
    \A p \in Procs :
        /\ obs[p].probeHost = "error" =>
              /\ pc[p] = "done" /\ ~ret[p].asrv /\ ret[p].signer = NoSigner
              /\ obs[p].probeUser = "none"
              /\ obs[p].ops \cap (CAOps("host") \cup CAOps("user") \cup ImportOps \cup KeyOps) = {}
        /\ obs[p].probeUser = "error" =>
              /\ pc[p] = "done" /\ ~ret[p].asrv /\ ret[p].signer = NoSigner
              /\ obs[p].ops \cap (CAOps("user") \cup ImportOps \cup KeyOps) = {}

\* The user-CA probe failed in a call that had just generated the host CA.
C15_Witness ==
    \E p \in Procs :
        /\ obs[p].probeUser = "error" /\ obs[p].probeHost = "absent"
        /\ "ResetHostCA" \in obs[p].ops
        /\ hostCA # NoCA /\ userCA = NoCA
        /\ pc[p] = "done"

\* Init's firstStart is what the probes of this call answered so far: false up
\* to the host probe, 'host absent' up to the user probe, and 'host absent or
\* user absent' from there on.
FlagFollowsProbes ==
    \A p \in Procs :
        InCall(p) =>
            local[p].firstStart =
                CASE pc[p] \in {"mkdir", "acquire", "secret_stat", "secret_write",
                                "secret_read", "host_probe"} -> FALSE
                  [] pc[p] \in {"host_resolve", "user_probe"} -> obs[p].probeHost = "absent"
                  [] OTHER -> FirstStartRun(p)
\* An import call is made only in a first-start run.
ImportsOnlyOnFirstStart ==
    \A p \in Procs : obs[p].ops \cap ImportOps # {} => FirstStartRun(p)
\* An import call is made in this step only with both CAs in the backend.
ImportsAfterCAs ==
    \A p \in Procs :
        (obs'[p].ops \cap ImportOps) \ obs[p].ops # {} => hostCA # NoCA /\ userCA # NoCA
\* A first-start run that returned success has imported all it was given.
FirstStartImportsAll ==
    \A p \in Procs :
        (Succeeded(p) /\ FirstStartRun(p)) =>
            /\ \A entry \in cfg[p].AllowedTokens :
                 <<DecodeSID(entry[2]), entry[1], TokenTTL>> \in tokens
            /\ \A i \in 1..Len(cfg[p].TrustedAuthorities) :
                 <<cfg[p].TrustedAuthorities[i], RemoteCertTTL>> \in remoteCerts
\* A run that has ended made an import call exactly if it was a first start.
ImportsIffFirstStart ==
    \A p \in Procs :
        Finished(p) => (obs[p].ops \cap ImportOps # {} <=> FirstStartRun(p))

\* C16 as stated: the flag is 'host CA absent or user CA absent' as probed in
\* this run; token and trusted-authority upserts happen in a run if and only
\* if the flag is true, and only after both CAs are present.
C16_UpsertsIffFirstStart ==
    [][ImportsAfterCAs /\ (FlagFollowsProbes /\ ImportsIffFirstStart)']_vars

\* C16 amended: the flag is as stated; upserts happen only if the flag is true
\* and only after both CAs are present; a first-start run that returns success
\* has upserted every token and trusted authority it was given.
C16_UpsertsOnlyOnFirstStart ==
    [][ImportsAfterCAs
       /\ (FlagFollowsProbes /\ ImportsOnlyOnFirstStart /\ FirstStartImportsAll)']_vars

\* A run that found the host CA present and the user CA absent imported its
\* tokens and trusted authorities and returned success.
C16_Witness ==
    \E p \in Procs :
        /\ Succeeded(p)
        /\ obs[p].probeHost = "present" /\ obs[p].probeUser = "absent"
        /\ ImportOps \subseteq obs[p].ops

\* The place of each call of Init in the order of its steps.
StepRank(op) ==
    CASE op = "MkdirAll" -> 0
      [] op = "AcquireLock" -> 1
      [] op \in {"NewKey", "WriteSecret"} -> 2
      [] op \in CAOps("host") -> 3
      [] op \in CAOps("user") -> 4
      [] op = "UpsertToken" -> 5
      [] op = "UpsertRemoteCert" -> 6
      [] OTHER -> 7
\* The calls p makes in this step.
NewOps(p) == IF callid'[p] = callid[p] THEN obs'[p].ops \ obs[p].ops ELSE {}
\* All that configuration c supplies has been imported.
ImportsDone(c) ==
    /\ \A entry \in c.AllowedTokens :
         <<DecodeSID(entry[2]), entry[1], TokenTTL>> \in tokens
    /\ \A i \in 1..Len(c.TrustedAuthorities) :
         <<c.TrustedAuthorities[i], RemoteCertTTL>> \in remoteCerts
\* One step of a call keeps the order: no call of an earlier step after one of
\* a later step, and each step only on the result of the steps before it.
StepInOrder(p) ==
    /\ \A new \in NewOps(p) :
         /\ \A old \in obs[p].ops : StepRank(old) <= StepRank(new)
         /\ StepRank(new) >= 2 => Holds(p, cfg[p].AuthDomain)
         /\ StepRank(new) >= 3 => SecretOnDisk(cfg[p].DataDir)
         /\ StepRank(new) = 3 => obs[p].probeHost = "absent"
         /\ StepRank(new) >= 4 => hostCA # NoCA /\ obs[p].probeUser # "none"
         /\ StepRank(new) = 4 => obs[p].probeUser = "absent"
         /\ StepRank(new) >= 5 => userCA # NoCA
         /\ StepRank(new) \in {5, 6} => local[p].firstStart
         /\ new = "UpsertRemoteCert" => local[p].todo = {}
         /\ StepRank(new) = 7 =>
              /\ userCA # NoCA
              /\ local[p].firstStart => ImportsDone(cfg[p])
    /\ obs'[p].probeHost # obs[p].probeHost /\ callid'[p] = callid[p] =>
         /\ SecretOnDisk(cfg[p].DataDir) /\ Holds(p, cfg[p].AuthDomain)
         /\ \A old \in obs[p].ops : StepRank(old) <= 2
    /\ obs'[p].probeUser # obs[p].probeUser /\ callid'[p] = callid[p] =>
         /\ obs[p].probeHost \in {"absent", "present"} /\ hostCA # NoCA
         /\ \A old \in obs[p].ops : StepRank(old) <= 3
    /\ (pc[p] # "done" /\ pc'[p] = "done" /\ ret'[p].asrv) =>
         /\ pc[p] = "new_signer" /\ HaveKeys(cfg[p].FQDN, cfg[p].DataDir)
         /\ LockFree(cfg[p].AuthDomain)'

\* C17: the steps of one Init run occur in a fixed order, each on the result
\* of the one before: lock, secret, host CA, user CA, tokens, trusted
\* authorities (the imports on first start only), node identity, release and
\* return.  The host CA is resolved before the user CA is probed, and the
\* key and cert files are written only when both CAs exist.
C17_FixedOrder == [][\A p \in Procs : StepInOrder(p)]_vars

\* A first-start run went through every step, imports included, and returned.
C17_Witness ==
    \E p \in Procs :
        /\ Succeeded(p)
        /\ {"AcquireLock", "WriteSecret", "ResetHostCA", "ResetUserCA", "UpsertToken",
            "UpsertRemoteCert", "GenerateKeyPair", "GenerateHostCert", "WriteKey",
            "WriteCert"} \subseteq obs[p].ops

\* The node private key files.
IsKeyPath(path) == path = keysPath(path[2], path[1]).key
\* A private key file that exists keeps its content in this step.
KeyFileKept ==
    \A path \in DOMAIN fs : IsKeyPath(path) => fs'[path] = fs[path]
\* The key and cert files are written in this step only by a call that found
\* one of them missing.
WritesOnlyWhenMissing ==
    \A p \in Procs :
        NewOps(p) \cap {"WriteKey", "WriteCert"} # {} =>
            \/ ~HaveKeys(cfg[p].FQDN, cfg[p].DataDir)
            \/ "WriteKey" \in obs'[p].ops

\* C18: a node private key file that exists is never given another content by
\* Init or InitKeys, also not after a run that stopped between the write of the
\* key file and the write of the cert file; the files are written only when
\* identity material is missing.
C18_KeyNeverRegenerated == [][KeyFileKept /\ WritesOnlyWhenMissing]_vars

\* C19: under fairness every Init call comes to its end (it returns, or it
\* panics at the nil pointer of the user-CA block); a caller that waits for
\* the lock gets it or returns the timeout error; a caller that holds the lock
\* releases it; and with no call in progress every lock is free.
C19_EveryCallReturns ==
    /\ \A p \in Procs : InCall(p) ~> Finished(p)
    /\ \A p \in Procs : (pc[p] = "acquire") ~> (InCritical(p) \/ TimedOut(p))
    /\ \A p \in Procs : \A name \in LockNames : Holds(p, name) ~> ~Holds(p, name)
    /\ []((\A p \in Procs : ~InCall(p)) => \A name \in LockNames : LockFree(name))

\* One caller got the timeout error while the other held the lock; both calls
\* have ended and the lock is free.
C19_Witness ==
    /\ \E p \in Procs : TimedOut(p) /\ pc[Other(p)] = "done" /\ "AcquireLock" \in obs[Other(p)].ops
    /\ \A name \in LockNames : LockFree(name)

\* C20: whenever Init has returned success the secret file exists and reads
\* back (ReadSecret succeeds), both CAs are in the backend, and the key file and
\* the cert file of the node name exist (HaveKeys reports true).
C20_SuccessMeansInitialized ==
    \A p \in Procs :
        Succeeded(p) =>
            /\ SecretOnDisk(cfg[p].DataDir)
            /\ hostCA # NoCA /\ userCA # NoCA
            /\ HaveKeys(cfg[p].FQDN, cfg[p].DataDir)

\* A call that adopted the supplied CAs returned success on an initialized
\* system.
C20_Witness ==
    \E p \in Procs :
        /\ Succeeded(p)
        /\ hostCA = SuppliedHostCA /\ userCA = SuppliedUserCA
        /\ SecretOnDisk(cfg[p].DataDir) /\ HaveKeys(cfg[p].FQDN, cfg[p].DataDir)

====
